---------------------------- MODULE Spec2Model ----------------------------
(***************************************************************************)
(* A model of the audit-workpaper evaluator of src/home.py                 *)
(* (class AssertionEvaluator and the page script that drives it).          *)
(*                                                                         *)
(* Text is modelled by TLA+ strings, character by character (Len, SubSeq   *)
(* and \o), with Python's 0-based indices kept in Find and Slice.          *)
(* A spreadsheet cell is a record [kind, s, n]: kind "nan" is pandas' NaN  *)
(* for an empty cell, "str" a text cell with text s, "num" a numeric cell  *)
(* with value n; kind "none" is Python's None.                             *)
(***************************************************************************)
EXTENDS Integers, Sequences, FiniteSets, TLC

VARIABLES
    pc,                 \* position of the operation being modelled
    grid,               \* the "Main" sheet as read with header=None
    sheets,             \* names of the other sheets of the workbook
    table,              \* result of read_assertions
    all_assertions,     \* result of extract_assertions
    assertions,         \* evaluate_all: the extracted blocks
    i,                  \* evaluate_all: the loop index (1-based)
    evaluation_results, \* self.evaluation_results
    progress_callback,  \* whether evaluate_all was given a callback
    progress_calls,     \* what the callback has been called with, in order
    model_log,          \* what the model call did for each block, in order
    context,            \* the context prepared for the block last evaluated
    returned,           \* the value evaluate_all returned (-1: none yet)
    link,               \* read_linked_sheet: its argument
    sheet_name,         \* read_linked_sheet: the sheet name it computed
    sheet_data,         \* read_linked_sheet: its result
    result_text,        \* parse_json_result: its argument
    parse_outcome       \* parse_json_result: its result

vars == <<pc, grid, sheets, table, all_assertions, assertions, i,
          evaluation_results, progress_callback, progress_calls, model_log,
          context, returned, link, sheet_name, sheet_data, result_text, parse_outcome>>

-----------------------------------------------------------------------------
(* Bounds of the model.                                                    *)

MaxLinkLen == 5      \* length of the link strings of SpecLink
MaxRows == 3         \* data rows of a sheet in SpecTable
MaxOffset == 1       \* rows above and columns left of the table in SpecTable
MaxRunRows == 3      \* data rows of a sheet in Spec
MaxProseLen == 2     \* length of the text around a fenced block in SpecParse

-----------------------------------------------------------------------------
(* Python's str operations.                                                *)

\* s[a:b] for 0 <= a, b (clamped as Python clamps a slice)
Sub(s, a, b) ==
    LET hi == IF b > Len(s) THEN Len(s) ELSE b
    IN  IF a >= hi THEN "" ELSE SubSeq(s, a + 1, hi)

\* s[a:b] where b may be negative (counted from the end, as -1 is)
Slice(s, a, b) == Sub(s, a, IF b < 0 THEN (IF Len(s) + b < 0 THEN 0 ELSE Len(s) + b) ELSE b)

Char(s, k) == SubSeq(s, k + 1, k + 1)

Whitespace == {" ", "\n", "\t", "\r"}

RECURSIVE LStrip(_)
LStrip(s) == IF s # "" /\ Char(s, 0) \in Whitespace THEN LStrip(Tail(s)) ELSE s

RECURSIVE RStrip(_)
RStrip(s) ==
    IF s # "" /\ Char(s, Len(s) - 1) \in Whitespace
    THEN RStrip(SubSeq(s, 1, Len(s) - 1)) ELSE s

\* str.strip()
Strip(s) == RStrip(LStrip(s))

\* s.startswith(p, k)
StartsAt(s, p, k) == k + Len(p) <= Len(s) /\ SubSeq(s, k + 1, k + Len(p)) = p

\* s.find(p, start): the lowest index >= start where p occurs, or -1
Find(s, p, start) ==
    LET hits == {k \in start..(Len(s) - Len(p)) : StartsAt(s, p, k)}
    IN  IF hits = {} THEN -1 ELSE CHOOSE k \in hits : \A h \in hits : k <= h

\* p in s
Contains(s, p) == Find(s, p, 0) # -1

\* s.replace(old, ""): every non-overlapping occurrence, left to right
RECURSIVE Remove(_, _)
Remove(s, old) ==
    LET k == Find(s, old, 0)
    IN  IF k = -1 THEN s
        ELSE Sub(s, 0, k) \o Remove(Sub(s, k + Len(old), Len(s)), old)

\* the strings over an alphabet, up to a length
RECURSIVE Strings(_, _)
Strings(alphabet, n) ==
    IF n = 0 THEN {""}
    ELSE LET shorter == Strings(alphabet, n - 1)
         IN  shorter \cup {s \o c : s \in shorter, c \in alphabet}

-----------------------------------------------------------------------------
(* Cells.                                                                  *)

NaN == [kind |-> "nan", s |-> "", n |-> 0]
None == [kind |-> "none", s |-> "", n |-> 0]
Text(t) == [kind |-> "str", s |-> t, n |-> 0]
Num(k) == [kind |-> "num", s |-> "", n |-> k]

\* pd.isna / pd.notna: NaN and None are both missing
IsNa(c) == c.kind \in {"nan", "none"}
NotNa(c) == ~IsNa(c)

\* Python truth of a cell value, as `if current:` takes it
Truthy(c) ==
    CASE c.kind = "str" -> c.s # ""
      [] c.kind = "num" -> c.n # 0
      [] OTHER -> FALSE

\* str(link)
Str(c) == IF c.kind = "num" THEN ToString(c.n) ELSE c.s

-----------------------------------------------------------------------------
(* read_linked_sheet                                                       *)

\* line 62: str(link).strip().replace("'!A1", "").replace("!A1", "")
SheetNameOf(text) == Remove(Remove(Strip(text), "'!A1"), "!A1")

\* lines 58-70; book maps the names of the workbook's sheets to their grids,
\* and pd.read_excel raises for a name the workbook does not have
\* lines 63-70: pd.read_excel of the sheet of that name
ReadSheet(name, book) ==
    IF name \in DOMAIN book
    THEN [sheet_name |-> name,
          raw_data |-> book[name],
          shape |-> <<Len(book[name]), Len(book[name][1])>>]
    ELSE [error |-> "Error reading sheet: " \o name]

ReadLinkedSheet(l, book) ==
    IF IsNa(l) THEN [error |-> "No link provided"] ELSE ReadSheet(SheetNameOf(Str(l)), book)

IsError(d) == "error" \in DOMAIN d

-----------------------------------------------------------------------------
(* read_assertions                                                         *)

Label == Text("Assertion")

HasLabel(row) == \E c \in 1..Len(row) : row[c] = Label

Least(S) == CHOOSE k \in S : \A h \in S : k <= h

\* col_idx given a first value before the loop, so that the loop's not
\* finding the label leaves it at the first column instead of unbound
LoopColIdxDefaulted(g) ==
    LET found == {r \in 1..Len(g) : HasLabel(g[r])}
    IN  IF found = {} THEN 1
        ELSE Least({c \in 1..Len(g[Least(found)]) : g[Least(found)][c] = Label})

\* lines 25-28: the loop leaves row_idx at the first row holding the label
\* (break), or at the last row when no row holds it; col_idx is bound only
\* by the break. 0 stands for a name the loop never bound.
LoopRowIdx(g) ==
    LET found == {r \in 1..Len(g) : HasLabel(g[r])}
    IN  IF found # {} THEN Least(found) ELSE Len(g)

LoopColIdx(g) ==
    LET found == {r \in 1..Len(g) : HasLabel(g[r])}
    IN  IF found = {} THEN 0
        ELSE Least({c \in 1..Len(g[Least(found)]) : g[Least(found)][c] = Label})

NoTable == [raised |-> FALSE, error |-> "", columns |-> <<>>, rows |-> <<>>]

\* the header row promoted to column names but left among the data rows
ReadAssertionsKeepingHeader(g) ==
    LET row_idx == LoopRowIdx(g)
        col_idx == LoopColIdx(g)
    IN  IF row_idx = 0 \/ col_idx = 0
        THEN [NoTable EXCEPT !.raised = TRUE, !.error = "UnboundLocalError"]
        ELSE LET sliced == [r \in 1..(Len(g) - row_idx + 1) |->
                               SubSeq(g[row_idx + r - 1], col_idx, Len(g[row_idx + r - 1]))]
             IN  [NoTable EXCEPT !.columns = sliced[1], !.rows = sliced]

\* lines 30-32: reading an unbound row_idx or col_idx raises; otherwise the
\* grid is cut at (row_idx, col_idx), its first row names the columns and
\* the rows after it are the data
ReadAssertions(g) ==
    LET row_idx == LoopRowIdx(g)
        col_idx == LoopColIdx(g)
    IN  IF row_idx = 0 \/ col_idx = 0
        THEN [NoTable EXCEPT !.raised = TRUE, !.error = "UnboundLocalError"]
        ELSE LET sliced == [r \in 1..(Len(g) - row_idx + 1) |->
                               SubSeq(g[row_idx + r - 1], col_idx, Len(g[row_idx + r - 1]))]
             IN  [NoTable EXCEPT !.columns = sliced[1], !.rows = Tail(sliced)]

-----------------------------------------------------------------------------
(* extract_assertions                                                      *)

\* row.get(name): the cell under the column of that name, None without one
Get(row, columns, name) ==
    LET at == {c \in 1..Len(columns) : columns[c] = Text(name)}
    IN  IF at = {} THEN None ELSE row[Least(at)]

\* lines 47 and 49: the procedure entry of a row
EntryOf(row, columns) ==
    [procedure |-> Get(row, columns, "Testing procedures performed"),
     link |-> Get(row, columns, "Link")]

\* lines 37-39
ExtractStart == [current |-> None, details |-> <<>>, all_assertions |-> <<>>]

\* line 44 and line 48: `if current:` and `elif current:`
CurrentSet(current) == Truthy(current)

\* lines 42-49: the body of the loop over the rows
ExtractRow(st, row, columns) ==
    LET value == Get(row, columns, "Assertion")
    IN  IF NotNa(value)
        THEN [current |-> value,
              details |-> <<EntryOf(row, columns)>>,
              all_assertions |->
                  IF CurrentSet(st.current)
                  THEN Append(st.all_assertions,
                              [assertion |-> st.current, procedures |-> st.details])
                  ELSE st.all_assertions]
        ELSE IF CurrentSet(st.current)
             THEN [st EXCEPT !.details = Append(@, EntryOf(row, columns))]
             ELSE st

RECURSIVE ExtractLoop(_, _, _)
ExtractLoop(st, rows, columns) ==
    IF rows = <<>> THEN st
    ELSE ExtractLoop(ExtractRow(st, Head(rows), columns), Tail(rows), columns)

\* lines 51-54
ExtractAssertions(tbl) ==
    LET st == ExtractLoop(ExtractStart, tbl.rows, tbl.columns)
    IN  IF CurrentSet(st.current)
        THEN Append(st.all_assertions,
                    [assertion |-> st.current, procedures |-> st.details])
        ELSE st.all_assertions

-----------------------------------------------------------------------------
(* The workbooks the model reads.                                          *)

ColumnNames == <<"Assertion", "Testing procedures performed", "Link">>

\* the order of the three named columns in the header row
Layouts == {<<1, 2, 3>>, <<1, 3, 2>>}

AssertionCells == {NaN, Text("A1"), Text("A2"), Num(0)}

Entries == {[procedure |-> Text("p1"), link |-> NaN],
            [procedure |-> Text("p2"), link |-> Text("S1'!A1")],
            [procedure |-> Text("p3"), link |-> Text("S9")]}

TableEntries == {e \in Entries : e.link # Text("S9")}

\* a logical row: its assertion cell and its procedure entry
LogicalRows(cells, entries) == {<<a, e.procedure, e.link>> : a \in cells, e \in entries}

RECURSIVE RowSeqs(_, _)
RowSeqs(rowset, n) ==
    IF n = 0 THEN {<<>>}
    ELSE LET shorter == RowSeqs(rowset, n - 1)
         IN  shorter \cup {Append(s, r) : s \in shorter, r \in rowset}

\* the grid of a sheet: `above` title rows, then the header row (when the
\* sheet has one), then the data rows; `left` reference columns before the
\* table's own
MakeGrid(above, left, layout, header, rows) ==
    LET pad == [k \in 1..left |-> Text("ref")]
        title == [k \in 1..(left + 3) |-> IF k = 1 THEN Text("Workpaper") ELSE NaN]
        head == pad \o [k \in 1..3 |-> Text(ColumnNames[layout[k]])]
        data == [r \in 1..Len(rows) |-> pad \o [k \in 1..3 |-> rows[r][layout[k]]]]
    IN  [k \in 1..above |-> title] \o (IF header THEN <<head>> ELSE <<>>) \o data

-----------------------------------------------------------------------------
(* json.loads and json.dumps, for the JSON the evaluator exchanges:        *)
(* objects, arrays, strings without escapes, unsigned integers and the     *)
(* three literals. A value is [str |-> s], [num |-> n], [lit |-> name],    *)
(* [arr |-> elements] or [obj |-> <<key, value>> pairs in order].          *)

JStr(t) == [str |-> t]
JNum(k) == [num |-> k]
JLit(name) == [lit |-> name]
JArr(elems) == [arr |-> elems]
JObj(members) == [obj |-> members]

Digits == <<"0", "1", "2", "3", "4", "5", "6", "7", "8", "9">>
IsDigit(c) == \E d \in 1..10 : Digits[d] = c
DigitValue(c) == (CHOOSE d \in 1..10 : Digits[d] = c) - 1

Failed == [ok |-> FALSE, pos |-> 0]
Parsed(v, p) == [ok |-> TRUE, value |-> v, pos |-> p]

RECURSIVE SkipWs(_, _)
SkipWs(s, p) == IF p < Len(s) /\ Char(s, p) \in Whitespace THEN SkipWs(s, p + 1) ELSE p

RECURSIVE DigitsEnd(_, _)
DigitsEnd(s, p) == IF p < Len(s) /\ IsDigit(Char(s, p)) THEN DigitsEnd(s, p + 1) ELSE p

RECURSIVE IntOf(_)
IntOf(t) == IF t = "" THEN 0
            ELSE 10 * IntOf(SubSeq(t, 1, Len(t) - 1)) + DigitValue(Char(t, Len(t) - 1))

\* the digits s[p:e] as a number; no digit at p is an error
NumberTo(s, p, e) == IF e = p THEN Failed ELSE Parsed(JNum(IntOf(Sub(s, p, e))), e)

\* a leading 0 is a number by itself
ParseNumber(s, p) == NumberTo(s, p, IF Char(s, p) = "0" THEN p + 1 ELSE DigitsEnd(s, p))

\* the string opened at p and closed by the quote at q (-1: never closed)
StringTo(s, p, q) ==
    IF p >= Len(s) \/ Char(s, p) # "\"" \/ q = -1 THEN Failed
    ELSE IF \E k \in (p + 1)..(q - 1) : Char(s, k) \in {"\n", "\t", "\r", "\\"}
         THEN Failed
         ELSE Parsed(JStr(Sub(s, p + 1, q)), q + 1)

\* a string runs to the next quote; a control character inside it is an error
ParseString(s, p) == StringTo(s, p, Find(s, "\"", p + 1))

RECURSIVE ParseValue(_, _)
RECURSIVE ParseElements(_, _, _)
RECURSIVE ParseMembers(_, _, _)

\* after an element, at q: "]" closes the array, "," goes on
ElementsEnd(s, q, acc) ==
    IF StartsAt(s, "]", q) THEN Parsed(JArr(acc), q + 1)
    ELSE IF StartsAt(s, ",", q) THEN ParseElements(s, q + 1, acc)
    ELSE Failed

\* the element v joins the array
ElementsValue(s, v, acc) ==
    IF v.ok THEN ElementsEnd(s, SkipWs(s, v.pos), Append(acc, v.value)) ELSE Failed

\* after "[" or ",": a value, then "," or "]"
ParseElements(s, p, acc) == ElementsValue(s, ParseValue(s, SkipWs(s, p)), acc)

\* after a member, at q: "}" closes the object, "," goes on
MembersEnd(s, q, acc) ==
    IF StartsAt(s, "}", q) THEN Parsed(JObj(acc), q + 1)
    ELSE IF StartsAt(s, ",", q) THEN ParseMembers(s, q + 1, acc)
    ELSE Failed

\* the value v joins the object under key
MembersValue(s, key, v, acc) ==
    IF v.ok THEN MembersEnd(s, SkipWs(s, v.pos), Append(acc, <<key, v.value>>)) ELSE Failed

\* after the key, at c: ":" and the value
MembersColon(s, key, c, acc) ==
    IF StartsAt(s, ":", c) THEN MembersValue(s, key, ParseValue(s, SkipWs(s, c + 1)), acc)
    ELSE Failed

\* the key k of a member
MembersKey(s, k, acc) ==
    IF k.ok THEN MembersColon(s, k.value.str, SkipWs(s, k.pos), acc) ELSE Failed

\* after "{" or ",": a key, ":", a value, then "," or "}"
ParseMembers(s, p, acc) == MembersKey(s, ParseString(s, SkipWs(s, p)), acc)

\* after "[", at q: "]" at once is the empty array
ArrayFrom(s, q) ==
    IF StartsAt(s, "]", q) THEN Parsed(JArr(<<>>), q + 1) ELSE ParseElements(s, q, <<>>)

\* after "{", at q: "}" at once is the empty object
ObjectFrom(s, q) ==
    IF StartsAt(s, "}", q) THEN Parsed(JObj(<<>>), q + 1) ELSE ParseMembers(s, q, <<>>)

ParseValue(s, p) ==
    IF p >= Len(s) THEN Failed
    ELSE IF Char(s, p) = "\"" THEN ParseString(s, p)
    ELSE IF IsDigit(Char(s, p)) THEN ParseNumber(s, p)
    ELSE IF StartsAt(s, "true", p) THEN Parsed(JLit("true"), p + 4)
    ELSE IF StartsAt(s, "false", p) THEN Parsed(JLit("false"), p + 5)
    ELSE IF StartsAt(s, "null", p) THEN Parsed(JLit("null"), p + 4)
    ELSE IF Char(s, p) = "[" THEN ArrayFrom(s, SkipWs(s, p + 1))
    ELSE IF Char(s, p) = "{" THEN ObjectFrom(s, SkipWs(s, p + 1))
    ELSE Failed

\* the value v must be followed by whitespace only
LoadsValue(s, v) ==
    IF v.ok /\ SkipWs(s, v.pos) = Len(s)
    THEN [raised |-> FALSE, value |-> v.value]
    ELSE [raised |-> TRUE, value |-> JLit("JSONDecodeError")]

\* json.loads: one value with only whitespace around it, or JSONDecodeError
JsonLoads(s) == LoadsValue(s, ParseValue(s, SkipWs(s, 0)))

RECURSIVE JsonDumps(_)
RECURSIVE DumpsJoin(_, _)

\* json.dumps with its default separators ", " and ": "
JsonDumps(v) ==
    CASE "str" \in DOMAIN v -> "\"" \o v.str \o "\""
      [] "num" \in DOMAIN v -> ToString(v.num)
      [] "lit" \in DOMAIN v -> v.lit
      [] "arr" \in DOMAIN v -> "[" \o DumpsJoin(v.arr, FALSE) \o "]"
      [] "obj" \in DOMAIN v -> "{" \o DumpsJoin(v.obj, TRUE) \o "}"

DumpsJoin(items, keyed) ==
    IF items = <<>> THEN ""
    ELSE LET one == IF keyed
                    THEN "\"" \o Head(items)[1] \o "\": " \o JsonDumps(Head(items)[2])
                    ELSE JsonDumps(Head(items))
         IN  IF Len(items) = 1 THEN one
             ELSE one \o ", " \o DumpsJoin(Tail(items), keyed)

\* dict.get(key): the last member of that name
Member(v, key) ==
    LET at == {k \in 1..Len(v.obj) : v.obj[k][1] = key}
    IN  v.obj[CHOOSE k \in at : \A h \in at : h <= k][2]

HasMember(v, key) == "obj" \in DOMAIN v /\ \E k \in 1..Len(v.obj) : v.obj[k][1] = key

-----------------------------------------------------------------------------
(* parse_json_result                                                       *)

\* A TLA+ string cannot hold the backquote character: "~" stands for it,
\* so that Fence is the three-backquote fence marker of lines 135-141.
Tick == "~"
Fence == Tick \o Tick \o Tick
JsonFence == Fence \o "json"

\* lines 136-138 and 140-142: the text from just after the opening marker
\* to the next fence marker (find's -1 when there is none), stripped
FencedFrom(text, start) == Strip(Slice(text, start, Find(text, Fence, start)))

Fenced(text, marker) == FencedFrom(text, Find(text, marker, 0) + Len(marker))

\* lines 135-143: what follows the failure `direct` of line 133; the
\* exception of the second json.loads leaves the function
FencedResult(text, direct) ==
    IF Contains(text, JsonFence) \/ Contains(text, Fence)
    THEN JsonLoads(Fenced(text, IF Contains(text, JsonFence) THEN JsonFence ELSE Fence))
    ELSE direct

\* line 133 succeeding returns; line 134 leads to FencedResult
DirectResult(text, direct) == IF ~direct.raised THEN direct ELSE FencedResult(text, direct)

\* lines 132-143
ParseJsonResult(text) == DirectResult(text, JsonLoads(text))

-----------------------------------------------------------------------------
(* prepare_context: the context is text built by appending; it is kept as  *)
(* the sequence of the pieces appended.                                    *)

\* lines 81-86: what read_linked_sheet's answer adds to the context
SheetParts(data) ==
    IF ~IsError(data)
    THEN <<[part |-> "Linked Sheet", sheet_name |-> data.sheet_name],
           [part |-> "Dimensions", shape |-> data.shape],
           [part |-> "Data", raw_data |-> data.raw_data]>>
    ELSE <<[part |-> "Error", message |-> data.error]>>

\* the resolver asked whatever the link, an absent one included
LinkedPartsUnguarded(proc, book) == SheetParts(ReadLinkedSheet(proc.link, book))

\* lines 79-86: what a procedure's link adds to the context
LinkedParts(proc, book) ==
    IF NotNa(proc.link) THEN SheetParts(ReadLinkedSheet(proc.link, book)) ELSE <<>>

\* lines 76-87, from procedure k on
RECURSIVE ProcedureParts(_, _, _)
ProcedureParts(procedures, k, book) ==
    IF k > Len(procedures) THEN <<>>
    ELSE <<[part |-> "Procedure", index |-> k, description |-> procedures[k].procedure]>>
         \o LinkedParts(procedures[k], book)
         \o <<[part |-> "---"]>>
         \o ProcedureParts(procedures, k + 1, book)

\* lines 74-89
PrepareContext(assertion, procedures, book) ==
    <<[part |-> "Evaluate", assertion |-> assertion]>> \o ProcedureParts(procedures, 1, book)

-----------------------------------------------------------------------------
(* evaluate_assertion and evaluate_all                                     *)

\* What client.models.generate_content can do with a prompt: raise, or
\* answer with a text.
ModelOutcomes ==
    {[throws |-> TRUE, text |-> "timeout"],
     [throws |-> FALSE, text |-> " {\"verdict\": \"TRUE\", \"confidence\": 90}\n"],
     [throws |-> FALSE,
      text |-> "Result:\n" \o JsonFence \o "\n{\"verdict\": \"FALSE\", \"confidence\": 70}\n" \o Fence],
     [throws |-> FALSE, text |-> "I cannot judge this workpaper."]}

\* line 128: the dictionary of the except branch
ModelErrorResult(message) ==
    JObj(<<<<"verdict", JStr("ERROR")>>, <<"confidence", JNum(0)>>,
           <<"reasoning", JStr("LLM evaluation error: " \o message)>>>>)

\* lines 117-128: the text evaluate_assertion returns
EvaluateAssertion(outcome) ==
    IF outcome.throws THEN JsonDumps(ModelErrorResult(outcome.text))
    ELSE Strip(outcome.text)

\* the except branch keeping a default verdict instead of the sentinel
ParseErrorResultUnknown ==
    JObj(<<<<"verdict", JStr("UNKNOWN")>>, <<"confidence", JNum(0)>>,
           <<"reasoning", JStr("Parse error")>>, <<"key_findings", JArr(<<>>)>>,
           <<"discrepancies", JArr(<<>>)>>, <<"recommendations", JArr(<<>>)>>>>)

\* lines 201-208: the dictionary of the except branch
ParseErrorResult ==
    JObj(<<<<"verdict", JStr("ERROR")>>, <<"confidence", JNum(0)>>,
           <<"reasoning", JStr("Parse error")>>, <<"key_findings", JArr(<<>>)>>,
           <<"discrepancies", JArr(<<>>)>>, <<"recommendations", JArr(<<>>)>>>>)

\* lines 200-208: the except branch replaces what could not be parsed
ParsedOrError(result) == IF result.raised THEN ParseErrorResult ELSE result.value

\* lines 198-208
ParsedResult(text) == ParsedOrError(ParseJsonResult(text))

\* the texts evaluate_assertion can return, each with what lines 198-208
\* make of it (worked out once, not at every step)
ParsedResults ==
    {[text |-> EvaluateAssertion(outcome), parsed |-> ParsedResult(EvaluateAssertion(outcome))] :
        outcome \in ModelOutcomes}

\* lines 210-215: the record appended for a block
RecordOf(block, text) ==
    [assertion |-> block.assertion, procedures |-> block.procedures,
     raw_result |-> text,
     parsed_result |-> (CHOOSE r \in ParsedResults : r.text = text).parsed]

\* the record put first instead of last
Prepended(results, record) == <<record>> \o results

\* line 210: list.append
Appended(results, record) == Append(results, record)

\* the callback called with enumerate's default, 0-based, index
ProgressArgsZeroBased(k, blocks, results) ==
    [current |-> k - 1, total |-> Len(blocks), recorded |-> Len(results)]

\* line 194: what the callback is called with; `recorded` is the number of
\* records it finds in evaluation_results at that moment
ProgressArgs(k, blocks, results) ==
    [current |-> k, total |-> Len(blocks), recorded |-> Len(results)]

\* lines 189-190: extract_assertions, whose exception ends evaluate_all
\* before anything is assigned
EvaluateAllStart ==
    /\ pc = "start"
    /\ table' = ReadAssertions(grid)
    /\ \/ /\ table'.raised
          /\ pc' = "raised"
          /\ UNCHANGED <<assertions, evaluation_results, i>>
       \/ /\ ~table'.raised
          /\ assertions' = ExtractAssertions(table')
          /\ evaluation_results' = <<>>
          /\ i' = 1
          /\ pc' = "loop"
    /\ UNCHANGED <<grid, sheets, all_assertions, progress_callback, progress_calls,
                   model_log, context, returned, link, sheet_name, sheet_data,
                   result_text, parse_outcome>>

\* lines 192-194: the next block is taken and the callback called
LoopHead ==
    /\ pc = "loop"
    /\ i <= Len(assertions)
    /\ progress_calls' = IF progress_callback
                         THEN Append(progress_calls,
                                     ProgressArgs(i, assertions, evaluation_results))
                         ELSE progress_calls
    /\ pc' = "evaluate"
    /\ UNCHANGED <<grid, sheets, table, all_assertions, assertions, i,
                   evaluation_results, progress_callback, model_log, context,
                   returned, link, sheet_name, sheet_data, result_text, parse_outcome>>

\* lines 196-215: the block is evaluated, the answer parsed, the record appended
EvaluateBlock ==
    /\ pc = "evaluate"
    /\ \E outcome \in ModelOutcomes :
          /\ context' = PrepareContext(assertions[i].assertion,
                                       assertions[i].procedures, sheets)
          /\ model_log' = Append(model_log, outcome)
          /\ evaluation_results' =
                 Appended(evaluation_results,
                          RecordOf(assertions[i], EvaluateAssertion(outcome)))
    /\ i' = i + 1
    /\ pc' = "loop"
    /\ UNCHANGED <<grid, sheets, table, all_assertions, assertions, progress_callback,
                   progress_calls, returned, link, sheet_name, sheet_data,
                   result_text, parse_outcome>>

\* line 217
Return ==
    /\ pc = "loop"
    /\ i > Len(assertions)
    /\ returned' = Len(assertions)
    /\ pc' = "done"
    /\ UNCHANGED <<grid, sheets, table, all_assertions, assertions, i,
                   evaluation_results, progress_callback, progress_calls, model_log,
                   context, link, sheet_name, sheet_data, result_text, parse_outcome>>

-----------------------------------------------------------------------------
(* The specifications.                                                     *)

\* the sheets a link can name, with their grids
Workbook == [n \in {"S1", "S"} |-> <<<<Num(1), Num(2)>>>>]

NoOutcome == [raised |-> FALSE, value |-> JLit("null")]

\* the state of a new AssertionEvaluator (lines 17-19) with nothing called
Fresh ==
    /\ pc = "start"
    /\ sheets = Workbook
    /\ table = NoTable
    /\ all_assertions = <<>>
    /\ assertions = <<>>
    /\ i = 0
    /\ evaluation_results = <<>>
    /\ progress_calls = <<>>
    /\ model_log = <<>>
    /\ context = <<>>
    /\ returned = -1
    /\ sheet_name = ""
    /\ sheet_data = [error |-> ""]
    /\ parse_outcome = NoOutcome

RunCells == {NaN, Text("A1")}

RunGrids ==
    {MakeGrid(1, 1, <<1, 2, 3>>, header, rows) :
        header \in BOOLEAN, rows \in RowSeqs(LogicalRows(RunCells, Entries), MaxRunRows)}

\* evaluate_all on a workbook, as the page script calls it (line 237)
Init ==
    /\ Fresh
    /\ grid \in RunGrids
    /\ progress_callback \in BOOLEAN
    /\ link = NaN
    /\ result_text = ""

Next == EvaluateAllStart \/ LoopHead \/ EvaluateBlock \/ Return

Spec == Init /\ [][Next]_vars

TableGrids ==
    {MakeGrid(above, left, layout, header, rows) :
        above \in 0..MaxOffset, left \in 0..MaxOffset, layout \in Layouts,
        header \in BOOLEAN,
        rows \in RowSeqs(LogicalRows(AssertionCells, TableEntries), MaxRows)}

\* line 36 and lines 22-32: extract_assertions reads the table
ReadAssertionsCall ==
    /\ pc = "start"
    /\ table' = ReadAssertions(grid)
    /\ pc' = IF table'.raised THEN "raised" ELSE "located"
    /\ UNCHANGED <<grid, sheets, all_assertions, assertions, i, evaluation_results,
                   progress_callback, progress_calls, model_log, context, returned,
                   link, sheet_name, sheet_data, result_text, parse_outcome>>

\* lines 37-54
ExtractAssertionsCall ==
    /\ pc = "located"
    /\ all_assertions' = ExtractAssertions(table)
    /\ pc' = "extracted"
    /\ UNCHANGED <<grid, sheets, table, assertions, i, evaluation_results,
                   progress_callback, progress_calls, model_log, context, returned,
                   link, sheet_name, sheet_data, result_text, parse_outcome>>

\* extract_assertions on a sheet
InitTable ==
    /\ Fresh
    /\ grid \in TableGrids
    /\ progress_callback = FALSE
    /\ link = NaN
    /\ result_text = ""

NextTable == ReadAssertionsCall \/ ExtractAssertionsCall

SpecTable == InitTable /\ [][NextTable]_vars

LinkAlphabet == {"S", " ", "'", "!", "A", "1"}

LinkExamples == {"Sheet1'!A1", "Sheet1!A1", "Sheet1"}

LinkInputs ==
    {NaN} \cup {Text(t) : t \in Strings(LinkAlphabet, MaxLinkLen) \cup LinkExamples}

\* lines 57-70
ReadLinkedSheetCall ==
    /\ pc = "start"
    /\ sheet_name' = IF IsNa(link) THEN "" ELSE SheetNameOf(Str(link))
    /\ sheet_data' = ReadLinkedSheet(link, sheets)
    /\ pc' = "read"
    /\ UNCHANGED <<grid, sheets, table, all_assertions, assertions, i,
                   evaluation_results, progress_callback, progress_calls, model_log,
                   context, returned, link, result_text, parse_outcome>>

\* read_linked_sheet on a link
InitLink ==
    /\ Fresh
    /\ grid = <<>>
    /\ progress_callback = FALSE
    /\ link \in LinkInputs
    /\ result_text = ""

NextLink == ReadLinkedSheetCall

SpecLink == InitLink /\ [][NextLink]_vars

\* well-formed JSON a model may answer with
Payloads ==
    {"{}",
     "{\"verdict\": \"TRUE\", \"confidence\": 90}",
     "{\"verdict\": \"FALSE\", \"confidence\": 5, \"key_findings\": [\"x\"]}",
     "{\"reasoning\": \"run " \o Fence \o "x" \o Fence \o " first\"}"}

ProseAlphabet == {"x", " ", Tick}

Prose == Strings(ProseAlphabet, MaxProseLen)

\* a payload in a fenced block that `marker` opens, with text around it
Wrapped(before, marker, space, payload, after) ==
    before \o marker \o space \o payload \o space \o Fence \o after

ParseInputs ==
    Payloads \cup Prose \cup {"The workpaper is fine."}
    \cup {Wrapped(before, marker, space, payload, after) :
            before \in Prose, marker \in {JsonFence, Fence}, space \in {"", "\n"},
            payload \in Payloads, after \in Prose}

\* lines 131-143
ParseJsonResultCall ==
    /\ pc = "start"
    /\ parse_outcome' = ParseJsonResult(result_text)
    /\ pc' = "parsed"
    /\ UNCHANGED <<grid, sheets, table, all_assertions, assertions, i,
                   evaluation_results, progress_callback, progress_calls, model_log,
                   context, returned, link, sheet_name, sheet_data, result_text>>

\* parse_json_result on a text
InitParse ==
    /\ Fresh
    /\ grid = <<>>
    /\ progress_callback = FALSE
    /\ link = NaN
    /\ result_text \in ParseInputs

NextParse == ParseJsonResultCall

SpecParse == InitParse /\ [][NextParse]_vars

-----------------------------------------------------------------------------
(* The claims.                                                             *)

\* the k-th smallest member of a set of numbers
Kth(S, k) == CHOOSE r \in S : Cardinality({q \in S : q < r}) = k - 1

\* the rows of the located table whose "Assertion" cell is not empty
LabeledRows ==
    {r \in 1..Len(table.rows) : NotNa(Get(table.rows[r], table.columns, "Assertion"))}

\* C1: extract_assertions returns exactly one block per row with a
\* non-empty "Assertion" cell, in row order; the k-th block carries the k-th
\* such row's value and, as its procedures, that row's entry followed by the
\* entries of the blank-label rows up to the next labeled row (so never an
\* empty list); blank-label rows before the first labeled row are ignored.
C1_OneBlockPerLabeledRow ==
    pc = "extracted" =>
        /\ Len(all_assertions) = Cardinality(LabeledRows)
        /\ \A k \in 1..Len(all_assertions) :
              LET first == Kth(LabeledRows, k)
                  next == IF k < Cardinality(LabeledRows)
                          THEN Kth(LabeledRows, k + 1) ELSE Len(table.rows) + 1
              IN  /\ all_assertions[k].assertion
                        = Get(table.rows[first], table.columns, "Assertion")
                  /\ all_assertions[k].procedures # <<>>
                  /\ all_assertions[k].procedures
                        = [j \in 1..(next - first) |->
                              EntryOf(table.rows[first + j - 1], table.columns)]

\* the rows of the grid that hold the label
LabelRows == {r \in 1..Len(grid) : HasLabel(grid[r])}

C8_TableBelowHeader ==
    (Cardinality(LabelRows) = 1 /\ pc \in {"located", "extracted"}) =>
        LET h == Kth(LabelRows, 1)
            c == Kth({k \in 1..Len(grid[h]) : grid[h][k] = Label}, 1)
        IN  /\ ~table.raised
            /\ table.columns = SubSeq(grid[h], c, Len(grid[h]))
            /\ table.columns[1] = Text("Assertion")
            /\ Len(table.rows) = Len(grid) - h
            /\ \A r \in 1..Len(table.rows) :
                  table.rows[r] = SubSeq(grid[h + r], c, Len(grid[h + r]))

C8_Witness ==
    /\ pc = "located"
    /\ Cardinality(LabelRows) = 1
    /\ Kth(LabelRows, 1) = 2
    /\ grid[2][1] # Label
    /\ Len(table.rows) = 2
    /\ table.rows[1] = Tail(grid[3])

\* what a link's text is without one trailing cell anchor
SuffixStripped(text) ==
    LET t == Strip(text)
        cut(n) == Strip(SubSeq(t, 1, Len(t) - n))
    IN  IF Len(t) >= 4 /\ SubSeq(t, Len(t) - 3, Len(t)) = "'!A1" THEN cut(4)
        ELSE IF Len(t) >= 3 /\ SubSeq(t, Len(t) - 2, Len(t)) = "!A1" THEN cut(3)
        ELSE t

\* C6: the sheet name read_linked_sheet computes is a fixed point of the
\* computation (normalizing it again changes nothing), and the spellings
\* "Sheet1'!A1", "Sheet1!A1" and "Sheet1" all give "Sheet1".
C6_NormalizationIdempotent ==
    (pc = "read" /\ NotNa(link)) =>
        /\ SheetNameOf(sheet_name) = sheet_name
        /\ link.s \in LinkExamples => sheet_name = "Sheet1"

\* C10: the sheet name is the link's text without at most one trailing
\* "'!A1" or "!A1" and the whitespace around it; an anchor text that is not
\* at the end stays in the sheet name.
C10_OnlyTrailingAnchorStripped ==
    (pc = "read" /\ NotNa(link)) => Strip(sheet_name) = SuffixStripped(link.s)

\* C7: parse_json_result returns a well-formed payload unchanged when given
\* it directly, returns the same value when the payload is in a fenced block
\* (tagged json or bare) with any text around the block (text before it
\* that neither holds a fence nor ends in a backquote, which would make the
\* marker a longer one), and raises on prose that is not JSON and holds no
\* fence.
C7_PayloadRecovered ==
    pc = "parsed" =>
        /\ result_text \in Payloads =>
              /\ ~parse_outcome.raised
              /\ JsonDumps(parse_outcome.value) = result_text
        /\ \A before \in Prose, marker \in {JsonFence, Fence}, space \in {"", "\n"},
              payload \in Payloads, after \in Prose :
              (/\ result_text = Wrapped(before, marker, space, payload, after)
               /\ ~Contains(before \o "x", Fence) /\ ~Contains(before \o "x", Tick \o "x")) =>
                  /\ ~parse_outcome.raised
                  /\ JsonDumps(parse_outcome.value) = payload
        /\ (result_text \notin Payloads /\ ~Contains(result_text, Fence)) =>
              parse_outcome.raised

N == Len(assertions)

\* the answers of the model that parse_json_result cannot parse
Unparseable ==
    {outcome \in ModelOutcomes :
        ~outcome.throws /\ ParseJsonResult(Strip(outcome.text)).raised}

\* the model call of block k raised, or its answer cannot be parsed
BlockFailed(k) == model_log[k].throws \/ model_log[k] \in Unparseable

ErrorVerdict(parsed) ==
    /\ HasMember(parsed, "verdict") /\ Member(parsed, "verdict") = JStr("ERROR")
    /\ HasMember(parsed, "confidence") /\ Member(parsed, "confidence") = JNum(0)

\* C2: in evaluate_all, a block whose model call raises, or whose answer
\* parse_json_result cannot parse, gets a record whose parsed_result has
\* verdict "ERROR" and confidence 0; the failure touches that block only:
\* the loop goes on to the next block, and at the end every block has its
\* record.
C2_FailedBlockGetsErrorRecord ==
    /\ Len(model_log) = Len(evaluation_results)
    /\ \A k \in 1..Len(evaluation_results) :
          /\ BlockFailed(k) => ErrorVerdict(evaluation_results[k].parsed_result)
          /\ (BlockFailed(k) /\ k < N /\ Len(evaluation_results) = k) =>
                (pc \in {"loop", "evaluate"} /\ i = k + 1)
    /\ pc = "done" => Len(evaluation_results) = N

C2_Witness ==
    /\ pc = "done"
    /\ N = 3
    /\ model_log[1].throws
    /\ ~model_log[2].throws /\ BlockFailed(2)
    /\ ~BlockFailed(3)
    /\ ErrorVerdict(evaluation_results[1].parsed_result)
    /\ ErrorVerdict(evaluation_results[2].parsed_result)
    /\ ~ErrorVerdict(evaluation_results[3].parsed_result)

\* evaluation_results holds the records of the first blocks, in block order
ResultsArePrefix ==
    /\ Len(evaluation_results) <= N
    /\ \A k \in 1..Len(evaluation_results) :
          /\ evaluation_results[k].assertion = assertions[k].assertion
          /\ evaluation_results[k].procedures = assertions[k].procedures

\* evaluation_results changes only by one record being appended
OneRecordAppended ==
    \/ evaluation_results' = evaluation_results
    \/ /\ Len(evaluation_results') = Len(evaluation_results) + 1
       /\ SubSeq(evaluation_results', 1, Len(evaluation_results)) = evaluation_results

\* a bound on the steps evaluate_all has left
StepsLeft ==
    CASE pc = "start" -> 2 * Len(grid) + 2
      [] pc = "loop" -> 2 * (N + 1 - i) + 1
      [] pc = "evaluate" -> 2 * (N + 1 - i)
      [] OTHER -> 0

\* evaluate_all has ended or its next step can be taken
CanStep == pc \in {"start", "loop", "done", "raised"} \/ (pc = "evaluate" /\ i \in 1..N)

\* C3: throughout a run of evaluate_all over N extracted blocks,
\* evaluation_results is a prefix of the block sequence and changes only by
\* the appending of one record; the run always ends (it is never stuck and
\* every step lowers StepsLeft, which is never negative), with exactly N
\* records in block order and N returned, whatever links, model calls and
\* parses fail.
C3_AppendOnlyPrefixAndTermination ==
    /\ [](pc \in {"loop", "evaluate", "done"} => ResultsArePrefix)
    /\ [][OneRecordAppended]_vars
    /\ [](CanStep /\ StepsLeft >= 0)
    /\ [][StepsLeft' < StepsLeft]_vars
    /\ [](pc = "done" => (Len(evaluation_results) = N /\ returned = N))

C3_Witness ==
    /\ pc = "done"
    /\ returned = 3
    /\ Len(evaluation_results) = 3
    /\ \E k \in 1..3 : evaluation_results[k].procedures[1].link = Text("S9")
    /\ \E k \in 1..3 : model_log[k].throws
    /\ \E k \in 1..3 : ~model_log[k].throws /\ BlockFailed(k)

\* C5 as stated: the callback is called once per block, after the block's
\* record has been appended, with (completed count, total): at the i-th
\* call the arguments are (i, N) and i blocks have been recorded.
C5_CalledAfterBlockCompletes ==
    progress_callback =>
        \A k \in 1..Len(progress_calls) :
            progress_calls[k] = [current |-> k, total |-> N, recorded |-> k]

\* the number of blocks evaluate_all has taken from the list
BlocksTaken == IF pc = "evaluate" THEN i ELSE IF pc \in {"loop", "done"} THEN i - 1 ELSE 0

\* C5, amended: the callback is called once per block, when the block is
\* taken and before it is evaluated, with (i, N): at the i-th call exactly
\* i - 1 blocks have been recorded.
C5_CalledBeforeBlockIsEvaluated ==
    progress_callback =>
        /\ Len(progress_calls) = BlocksTaken
        /\ \A k \in 1..Len(progress_calls) :
              progress_calls[k] = [current |-> k, total |-> N, recorded |-> k - 1]
        /\ pc = "done" => Len(progress_calls) = N

C5_Witness ==
    /\ progress_callback
    /\ pc = "done"
    /\ N = 3
    /\ progress_calls[3] = [current |-> 3, total |-> 3, recorded |-> 2]

\* the positions in the context of the pieces of a kind
PartsAt(kind) == {q \in 1..Len(context) : context[q].part = kind}

PartNames(parts) == [q \in 1..Len(parts) |-> parts[q].part]

\* the block whose context was prepared last
LastBlock == assertions[Len(evaluation_results)]

=============================================================================
